---- MODULE Spec2Model ----
(***************************************************************************)
(* Model of tv_style_alpaca_flip.py: run_once and the collaborators it     *)
(* drives (Alpaca broker client, Yahoo candle source, Telegram notifier,   *)
(* the JSON state file).  One run of the script is one pass of pc from     *)
(* "idle" to "done"; the scheduler starts runs one after the other.        *)
(***************************************************************************)
EXTENDS Integers, Sequences, FiniteSets, TLC

(***************************************************************************)
(* Bounds of the model.                                                    *)
(***************************************************************************)
\* number of run_once invocations explored
MaxRuns == 2
\* candle timestamps are 1..MaxTs
MaxTs == 2
\* broker quantities are counted in 1/QtyScale of a share (fractional positions)
QtyScale == 2
\* largest absolute position the broker account can hold, in shares
MaxPos == 2
\* Params.qty used by the runs, in shares
TradeQty == 1

\* longest close series rsi is evaluated on
MaxLen == 4

(***************************************************************************)
(* Program constants.                                                      *)
(***************************************************************************)
MinCandles == 50
StaleLimit == 25
RsiLow == 45
RsiHigh == 55
DefaultAdxThresh == 20
RsiLength == 14

DEFAULT_SYMBOL == "GME"
OtherSymbol == "AMC"
Symbols == {DEFAULT_SYMBOL, OtherSymbol}

\* Python's None; a value that may be None is None or a one-element tuple
None == <<>>
\* p.state_path does not exist
NoFile == <<>>
\* the dict {}: the key last_bar is absent
EmptyDict == [last_bar |-> None]

Timestamps == 1..MaxTs
\* lengths of the frame get_yahoo_data returns (0: download failed or empty)
DfLens == {0, MinCandles - 1, MinCandles}
\* lag of the last candle behind the wall clock, in minutes
Lags == {StaleLimit, 40}
\* broker position quantities, in 1/QtyScale shares
Quantities == (-(MaxPos * QtyScale))..(MaxPos * QtyScale)

\* the last row of the frame: the indicator snapshot the strategy reads
Snapshots ==
    [Close : {99, 100, 101}, EMA : {100}, MACD : {-1, 0, 1}, SIG : {0},
     RSI : {RsiLow, 50, RsiHigh}, ADX : {DefaultAdxThresh, 30}]

VARIABLES
    pc,          \* position of the running run_once ("idle": no process)
    p,           \* Params of the run
    loc,         \* locals of run_once
    res,         \* what each external call of the run answered
    calls,       \* broker requests issued by the run, in order
    notes,       \* tg_send calls of the run, in order
    state_file,  \* content of p.state_path on disk
    brokerQty,   \* position held at the broker, per symbol
    candle_ts,   \* timestamp of the newest candle Yahoo serves, per symbol
    accepted,    \* orders the broker accepted, counted per candle id
    runs,        \* number of runs started
    start,       \* state file and broker position when the run started
    prev,        \* summary of the previous run
    active,      \* symbols the scheduler runs the script for
    fn_arg,      \* argument of the indicator or strategy function under evaluation
    fn_val       \* its value (None: not evaluated)

vars == <<pc, p, loc, res, calls, notes, state_file, brokerQty, candle_ts,
          accepted, runs, start, prev, active, fn_arg, fn_val>>

(***************************************************************************)
(* Pure parts of run_once.                                                 *)
(***************************************************************************)
\* f"{p.symbol}_{last_ts}"
BarKey(symbol, last_ts) == <<symbol, "_", last_ts>>

BarKeys == {BarKey(s, t) : s \in Symbols, t \in Timestamps}

\* trend_ok, buy_signal, sell_signal
TrendOk(r, adx_thresh) == r.ADX > adx_thresh

BuySignalNotStrict(r, adx_thresh) ==
    (r.Close > r.EMA) /\ (r.MACD > r.SIG) /\ (r.RSI >= RsiLow) /\ TrendOk(r, adx_thresh)

BuySignal(r, adx_thresh) ==
    (r.Close > r.EMA) /\ (r.MACD > r.SIG) /\ (r.RSI > RsiLow) /\ TrendOk(r, adx_thresh)

SellSignal(r, adx_thresh) ==
    (r.Close < r.EMA) /\ (r.MACD < r.SIG) /\ (r.RSI < RsiHigh) /\ TrendOk(r, adx_thresh)

\* tg_send: the POST sits in try/except Exception, nothing leaves the function
TgSendRaisesOnFailure(outcome) == outcome = "failed"

TgSendRaises(outcome) == FALSE

\* if df.empty or len(df) < 50: return
InsufficientDataEmptyOnly(n) == n = 0

InsufficientData(n) == n = 0 \/ n < MinCandles

\* int(float(pos["qty"])): truncation toward zero of a quantity in 1/QtyScale shares
IntOfFloat(q) == IF q >= 0 THEN q \div QtyScale ELSE -((-q) \div QtyScale)

PosQty(pos) == IF pos # None THEN IntOfFloat(pos[1]) ELSE 0

\* action = "HOLD"; if buy_signal and not in_long ...; elif sell_signal and not in_short ...
ActionOf(buy_signal, sell_signal, in_long, in_short) ==
    IF buy_signal /\ ~in_long THEN "LONG"
    ELSE IF sell_signal /\ ~in_short THEN "SHORT"
    ELSE "HOLD"

\* if lag_minutes > 25: print(...)  # return   -- the return is commented out
StaleReturnEnforced(lag_minutes) == lag_minutes > StaleLimit

StaleReturn(lag_minutes) == (lag_minutes > StaleLimit) /\ FALSE

\* json.loads(state_file.read_text()) if state_file.exists() else {}
LoadState(file) == IF file = NoFile THEN EmptyDict ELSE file[1]

\* state.get("last_bar")
StateGet(state, key) == state[key]

\* if state.get("last_bar") == bar_key: return
AlreadyProcessed(state, bar_key) == StateGet(state, "last_bar") = bar_key

\* if action != "HOLD":
ShouldExecuteAlways(action) == TRUE

ShouldExecute(action) == action # "HOLD"

\* side = "buy" if action == "LONG" else "sell"
SideOf(action) == IF action = "LONG" THEN "buy" ELSE "sell"

\* where run_once goes after alp.submit_order: on to the state write, or to the handler
AfterSubmitRetry(outcome) == IF outcome = "ok" THEN "persist" ELSE "submit"

AfterSubmitPersistAlways(outcome) == "persist"

AfterSubmit(outcome) == IF outcome = "ok" THEN "persist" ELSE "done"

\* state["last_bar"] = bar_key
SetLastBar(state, bar_key) == [state EXCEPT !["last_bar"] = bar_key]

\* the broker's book after a market order of qty shares fills
Filled(held, side, qty) ==
    IF side = "buy" THEN held + qty * QtyScale ELSE held - qty * QtyScale

NoLocals ==
    [df_len |-> 0, last_ts |-> 0, lag_minutes |-> 0, buy_signal |-> FALSE, sell_signal |-> FALSE,
     pos |-> None, action |-> "HOLD", bar_key |-> None, state |-> EmptyDict]

NoResults ==
    [ctor |-> "none", fetch |-> "none", getpos |-> "none", close |-> "none",
     submit |-> "none", write |-> "none", ret |-> "none"]

NoPrev == [bar_key |-> None, action |-> "HOLD", submit |-> "none", write |-> "none"]

NoParams == [symbol |-> "", qty |-> 0, adx_thresh |-> 0]

(***************************************************************************)
(* Initial state: no state file yet, the account holds any position.       *)
(***************************************************************************)
InitCommon ==
    /\ pc = "idle"
    /\ p = NoParams
    /\ loc = NoLocals
    /\ res = NoResults
    /\ calls = <<>>
    /\ notes = <<>>
    /\ state_file = NoFile
    /\ candle_ts = [s \in Symbols |-> 1]
    /\ accepted = [k \in BarKeys |-> 0]
    /\ runs = 0
    /\ start = [file |-> NoFile, held |-> 0]
    /\ prev = NoPrev

\* no function is evaluated on its own
NoCall == fn_arg = None /\ fn_val = None

Init ==
    /\ InitCommon
    /\ NoCall
    /\ active = {DEFAULT_SYMBOL}
    /\ brokerQty \in [Symbols -> Quantities]
    /\ \A s \in Symbols \ active : brokerQty[s] = 0

(***************************************************************************)
(* The actions.                                                            *)
(***************************************************************************)
\* Yahoo publishes the next candle of a symbol (timestamps only move forward).
NewCandle(s) ==
    /\ pc = "idle"
    /\ candle_ts[s] < MaxTs
    /\ candle_ts' = [candle_ts EXCEPT ![s] = @ + 1]
    /\ UNCHANGED <<pc, p, loc, res, calls, notes, state_file, brokerQty, accepted,
                   runs, start, prev, active, fn_arg, fn_val>>

\* main() builds Params and calls run_once; Alpaca() raises without an API key.
Begin(s) ==
    /\ pc = "idle"
    /\ runs < MaxRuns
    /\ runs' = runs + 1
    /\ p' = [symbol |-> s, qty |-> TradeQty, adx_thresh |-> DefaultAdxThresh]
    /\ loc' = NoLocals
    /\ calls' = <<>>
    /\ notes' = <<>>
    /\ start' = [file |-> state_file, held |-> brokerQty[s]]
    /\ \E key \in BOOLEAN :
          IF key
          THEN /\ res' = [NoResults EXCEPT !.ctor = "ok"]
               /\ pc' = "fetch"
          ELSE /\ res' = [NoResults EXCEPT !.ctor = "RuntimeError", !.ret = "crash"]
               /\ pc' = "done"
    /\ UNCHANGED <<state_file, brokerQty, candle_ts, accepted, prev, active, fn_arg, fn_val>>

\* get_yahoo_data, the length check, the indicators, the lag check and the strategy.
FetchAndSignal ==
    /\ pc = "fetch"
    /\ \E n \in DfLens, lag \in Lags, r \in Snapshots :
          IF InsufficientData(n)
          THEN /\ res' = [res EXCEPT !.fetch = IF n = 0 THEN "empty" ELSE "short",
                                     !.ret = "nodata"]
               /\ loc' = [loc EXCEPT !.df_len = n]
               /\ pc' = "done"
          ELSE /\ loc' = [loc EXCEPT !.df_len = n,
                                     !.last_ts = candle_ts[p.symbol],
                                     !.lag_minutes = lag,
                                     !.buy_signal = BuySignal(r, p.adx_thresh),
                                     !.sell_signal = SellSignal(r, p.adx_thresh)]
               /\ IF StaleReturn(lag)
                  THEN /\ res' = [res EXCEPT !.fetch = "ok", !.ret = "stale"]
                       /\ pc' = "done"
                  ELSE /\ res' = [res EXCEPT !.fetch = "ok"]
                       /\ pc' = "position"
    /\ UNCHANGED <<p, calls, notes, state_file, brokerQty, candle_ts, accepted,
                   runs, start, prev, active, fn_arg, fn_val>>

\* alp.get_position: the JSON on status 200, None on any other status; then
\* pos_qty, in_long, in_short and action.
GetPosition ==
    /\ pc = "position"
    /\ \E out \in {"200", "other", "exception"} :
          /\ (out = "200") => brokerQty[p.symbol] # 0
          /\ IF out = "exception"
             THEN /\ res' = [res EXCEPT !.getpos = out, !.ret = "crash"]
                  /\ loc' = loc
                  /\ pc' = "done"
             ELSE LET pos == IF out = "200" THEN <<brokerQty[p.symbol]>> ELSE None
                      pos_qty == PosQty(pos)
                      in_long == pos_qty > 0
                      in_short == pos_qty < 0
                  IN /\ res' = [res EXCEPT !.getpos = out]
                     /\ loc' = [loc EXCEPT !.pos = pos,
                                           !.action = ActionOf(loc.buy_signal,
                                                      loc.sell_signal, in_long, in_short)]
                     /\ pc' = "memory"
    /\ UNCHANGED <<p, calls, notes, state_file, brokerQty, candle_ts, accepted,
                   runs, start, prev, active, fn_arg, fn_val>>

\* the state file is read, bar_key built, the processed bar skipped, HOLD skipped.
Memory ==
    /\ pc = "memory"
    /\ LET state == LoadState(state_file)
           bar_key == BarKey(p.symbol, loc.last_ts)
       IN /\ loc' = [loc EXCEPT !.state = state, !.bar_key = bar_key]
          /\ IF AlreadyProcessed(state, bar_key)
             THEN /\ res' = [res EXCEPT !.ret = "processed"]
                  /\ pc' = "done"
             ELSE IF ShouldExecute(loc.action)
                  THEN /\ res' = res
                       /\ pc' = IF loc.pos # None THEN "close" ELSE "submit"
                  ELSE /\ res' = [res EXCEPT !.ret = "hold"]
                       /\ pc' = "done"
    /\ UNCHANGED <<p, calls, notes, state_file, brokerQty, candle_ts, accepted,
                   runs, start, prev, active, fn_arg, fn_val>>

\* if pos: alp.close_position(p.symbol); tg_send(FLIP); time.sleep(2)
\* The DELETE's status is not looked at; an exception of the request leaves run_once.
ClosePosition ==
    /\ pc = "close"
    /\ calls' = Append(calls, <<"close", p.symbol>>)
    /\ \E out \in {"ok", "rejected", "exception"}, sent \in {"sent", "failed"} :
          /\ brokerQty' = IF out = "ok" THEN [brokerQty EXCEPT ![p.symbol] = 0]
                          ELSE brokerQty
          /\ IF out = "exception"
             THEN /\ res' = [res EXCEPT !.close = out, !.ret = "crash"]
                  /\ notes' = notes
                  /\ pc' = "done"
             ELSE /\ notes' = Append(notes, <<"FLIP", sent>>)
                  /\ IF TgSendRaises(sent)
                     THEN /\ res' = [res EXCEPT !.close = out, !.ret = "crash"]
                          /\ pc' = "done"
                     ELSE /\ res' = [res EXCEPT !.close = out]
                          /\ pc' = "submit"
    /\ UNCHANGED <<p, loc, state_file, candle_ts, accepted, runs, start, prev, active,
                   fn_arg, fn_val>>

\* alp.submit_order(...) inside the try; tg_send(OPEN) on success, the except
\* branch (print, tg_send(EROARE)) on failure, also of anything tg_send raised.
SubmitOrder ==
    /\ pc = "submit"
    /\ LET side == SideOf(loc.action)
       IN /\ calls' = Append(calls, <<"submit", side, p.qty>>)
          /\ \E out \in {"ok", "fail"}, fill \in BOOLEAN, sent \in {"sent", "failed"} :
                /\ LET next == IF out = "ok" /\ TgSendRaises(sent) THEN "done"
                               ELSE AfterSubmit(out)
                   IN /\ res' = [res EXCEPT !.submit = out,
                                            !.ret = IF next = "done" THEN "order_error"
                                                    ELSE @]
                      /\ pc' = next
                /\ IF out = "ok"
                   THEN /\ accepted' = [accepted EXCEPT ![loc.bar_key] = @ + 1]
                        /\ brokerQty' =
                              IF fill /\ Filled(brokerQty[p.symbol], side, p.qty) \in Quantities
                              THEN [brokerQty EXCEPT ![p.symbol] = Filled(@, side, p.qty)]
                              ELSE brokerQty
                        /\ notes' = Append(notes, <<"OPEN", sent>>)
                   ELSE /\ accepted' = accepted
                        /\ brokerQty' = brokerQty
                        /\ notes' = IF AfterSubmit(out) = "done"
                                    THEN Append(notes, <<"EROARE", sent>>)
                                    ELSE notes
    /\ UNCHANGED <<p, loc, state_file, candle_ts, runs, start, prev, active, fn_arg, fn_val>>

\* state["last_bar"] = bar_key; state_file.write_text(json.dumps(state)), still
\* inside the try: an OSError of the write lands in the same except branch.
Persist ==
    /\ pc = "persist"
    /\ loc' = [loc EXCEPT !.state = SetLastBar(loc.state, loc.bar_key)]
    /\ \E out \in {"ok", "OSError"}, sent \in {"sent", "failed"} :
          /\ IF out = "ok"
             THEN /\ state_file' = <<loc'.state>>
                  /\ res' = [res EXCEPT !.write = out, !.ret = "end"]
                  /\ notes' = notes
             ELSE /\ state_file' = state_file
                  /\ res' = [res EXCEPT !.write = out, !.ret = "order_error"]
                  /\ notes' = Append(notes, <<"EROARE", sent>>)
    /\ pc' = "done"
    /\ UNCHANGED <<p, calls, brokerQty, candle_ts, accepted, runs, start, prev, active,
                   fn_arg, fn_val>>

\* the process exits (its locals are gone); the scheduler may start the next run.
Finish ==
    /\ pc = "done"
    /\ pc' = "idle"
    /\ prev' = [bar_key |-> loc.bar_key, action |-> loc.action,
                submit |-> res.submit, write |-> res.write]
    /\ p' = NoParams
    /\ loc' = NoLocals
    /\ res' = NoResults
    /\ calls' = <<>>
    /\ notes' = <<>>
    /\ start' = [file |-> NoFile, held |-> 0]
    /\ UNCHANGED <<state_file, brokerQty, candle_ts, accepted, runs, active, fn_arg, fn_val>>

Next ==
    \/ \E s \in active : NewCandle(s)
    \/ \E s \in active : Begin(s)
    \/ FetchAndSignal
    \/ GetPosition
    \/ Memory
    \/ ClosePosition
    \/ SubmitOrder
    \/ Persist
    \/ Finish

Spec == Init /\ [][Next]_vars

(***************************************************************************)
(* The script scheduled for two symbols with the same --state file.        *)
(***************************************************************************)
InitMulti ==
    /\ InitCommon
    /\ NoCall
    /\ active = Symbols
    /\ brokerQty \in [Symbols -> {0, TradeQty * QtyScale}]

SpecMulti == InitMulti /\ [][Next]_vars

(***************************************************************************)
(* The strategy of run_once evaluated on its own, over rows around every   *)
(* threshold.                                                              *)
(***************************************************************************)
\* no run_once is in progress
NoRun ==
    /\ InitCommon
    /\ active = {}
    /\ brokerQty = [s \in Symbols |-> 0]

runVars == <<pc, p, loc, res, calls, notes, state_file, brokerQty, candle_ts,
             accepted, runs, start, prev, active>>

SignalRows ==
    [Close : {99, 100, 101}, EMA : {100}, MACD : {-1, 0, 1}, SIG : {0},
     RSI : {RsiLow - 1, RsiLow, RsiLow + 1, RsiHigh - 1, RsiHigh, RsiHigh + 1},
     ADX : {DefaultAdxThresh - 1, DefaultAdxThresh, DefaultAdxThresh + 1, 25, 26}]

AdxThresholds == {DefaultAdxThresh, 25}

InitSignal ==
    /\ NoRun
    /\ fn_arg \in [r : SignalRows, adx_thresh : AdxThresholds]
    /\ fn_val = None

\* lines 185-187 on the row r
EvalSignal ==
    /\ fn_val = None
    /\ fn_val' = <<[buy_signal |-> BuySignal(fn_arg.r, fn_arg.adx_thresh),
                    sell_signal |-> SellSignal(fn_arg.r, fn_arg.adx_thresh)]>>
    /\ UNCHANGED <<fn_arg, runVars>>

SpecSignal == InitSignal /\ [][EvalSignal]_vars

(***************************************************************************)
(* rsi(close) evaluated on its own.  Floats are kept exact: a smoothed      *)
(* series is the numerator of its value over the power of length that both *)
(* smoothed series of a position share; NaN and inf are values of their own.*)
(***************************************************************************)
NaN == [kind |-> "nan", n |-> 0, d |-> 1]
Inf == [kind |-> "inf", n |-> 0, d |-> 1]
Num(n, d) == [kind |-> "num", n |-> n, d |-> d]

RECURSIVE Pow(_, _)
Pow(b, e) == IF e = 0 THEN 1 ELSE b * Pow(b, e - 1)

\* delta = close.diff() at position i >= 2 (position 1 is NaN)
Delta(close, i) == close[i] - close[i - 1]

\* up = delta.clip(lower=0.0); down = (-delta).clip(lower=0.0)
Up(close, i) == IF Delta(close, i) > 0 THEN Delta(close, i) ELSE 0

Down(close, i) == IF -Delta(close, i) > 0 THEN -Delta(close, i) ELSE 0

\* x.ewm(alpha=1/length, adjust=False).mean() at position i >= 2, times
\* length^(i-2): seeded with the first value that is not NaN, x[2]
RECURSIVE EwmUp(_, _)
EwmUp(close, i) ==
    IF i = 2 THEN Up(close, 2)
    ELSE (RsiLength - 1) * EwmUp(close, i - 1) + Pow(RsiLength, i - 3) * Up(close, i)

RECURSIVE EwmDown(_, _)
EwmDown(close, i) ==
    IF i = 2 THEN Down(close, 2)
    ELSE (RsiLength - 1) * EwmDown(close, i - 1) + Pow(RsiLength, i - 3) * Down(close, i)

\* the division of two non-negative floats: x/0 is inf, 0/0 is NaN, no error
FDivZeroIsNaN(a, b) == IF b = 0 THEN NaN ELSE Num(a, b)

FDiv(a, b) == IF b = 0 THEN (IF a = 0 THEN NaN ELSE Inf) ELSE Num(a, b)

\* rs = up.ewm(...).mean() / down.ewm(...).mean()
Rs(close, i) == IF i = 1 THEN NaN ELSE FDiv(EwmUp(close, i), EwmDown(close, i))

\* 100.0 / (1.0 + rs)
HundredOverOnePlus(rs) ==
    IF rs.kind = "nan" THEN NaN
    ELSE IF rs.kind = "inf" THEN Num(0, 1)
    ELSE Num(100 * rs.d, rs.d + rs.n)

\* .fillna(50.0)
FillNa(x, fill) == IF x.kind = "nan" THEN Num(fill, 1) ELSE x

\* 100.0 - x, for x a number
HundredMinus(x) == Num(100 * x.d - x.n, x.d)

\* return 100.0 - (100.0 / (1.0 + rs)).fillna(50.0)
Rsi(close, i) == HundredMinus(FillNa(HundredOverOnePlus(Rs(close, i)), 50))

CloseValues == {1, 2, 3}

CloseSeries == UNION {[1..n -> CloseValues] : n \in 2..MaxLen}

InitRsi ==
    /\ NoRun
    /\ fn_arg \in [close : CloseSeries]
    /\ fn_val = None

EvalRsi ==
    /\ fn_val = None
    /\ fn_val' = <<[i \in 1..Len(fn_arg.close) |-> Rsi(fn_arg.close, i)]>>
    /\ UNCHANGED <<fn_arg, runVars>>

SpecRsi == InitRsi /\ [][EvalRsi]_vars

(***************************************************************************)
(* Vocabulary of the claims.                                               *)
(***************************************************************************)
InRun == pc # "idle"

HasCall(kind) == \E i \in DOMAIN calls : calls[i][1] = kind

NumCalls(kind) == Cardinality({i \in DOMAIN calls : calls[i][1] = kind})

\* the persisted marker: the value of the key last_bar in the file (None: no marker)
Marker(file) == StateGet(LoadState(file), "last_bar")

\* the id of the newest candle of the run's symbol
CandleId == BarKey(p.symbol, candle_ts[p.symbol])

\* the run got past the processed-bar check with a signal and a position read
Unprocessed == loc.bar_key # None /\ res.ret # "processed"

CloseCall == <<"close", p.symbol>>

SubmitCall(side) == <<"submit", side, p.qty>>

(***************************************************************************)
(* C1  At most one order per candle id.                                    *)
(***************************************************************************)
\* C1: over any sequence of runs for one symbol and one state file, the broker
\* never accepts more than one order for the same candle_id.
C1_AtMostOneOrderPerCandle == \A k \in BarKeys : accepted[k] <= 1

(***************************************************************************)
(* C2  The marker is written only after a successful submission.           *)
(***************************************************************************)
\* C2 (as stated): the marker changes only in a run whose submission succeeded,
\* and then to that run's candle_id; in a run where close_position or
\* submit_order fails the marker is at the end what it was at the start.
C2_MarkerUntouchedOnAnyFailure ==
    InRun =>
        /\ (state_file # start.file) =>
              (res.submit = "ok" /\ Marker(state_file) = CandleId)
        /\ (pc = "done" /\ (res.close \in {"rejected", "exception"} \/ res.submit = "fail"))
              => (Marker(state_file) = Marker(start.file))

\* C2 (amended): the marker changes only in a run whose submission succeeded,
\* and then to that run's candle_id; in a run where submit_order fails or the
\* close request raises, the marker is at the end what it was at the start.
C2_MarkerUntouchedOnSubmitFailure ==
    InRun =>
        /\ (state_file # start.file) =>
              (res.submit = "ok" /\ Marker(state_file) = CandleId)
        /\ (pc = "done" /\ (res.close = "exception" \/ res.submit = "fail"))
              => (Marker(state_file) = Marker(start.file))

\* a run after a processed candle whose submission failed: the old marker is kept
C2_Witness ==
    /\ pc = "done"
    /\ res.submit = "fail"
    /\ Marker(start.file) # None
    /\ Marker(state_file) = Marker(start.file)

(***************************************************************************)
(* C3  Idempotence.                                                        *)
(***************************************************************************)
\* the first half of C3: a run that starts with the marker equal to the current
\* candle_id ends without a close, a submit or a state write.
ProcessedBarIsSkipped ==
    (InRun /\ res.fetch = "ok" /\ Marker(start.file) = CandleId) =>
        (calls = <<>> /\ state_file = start.file /\ pc \notin {"close", "submit", "persist"})

\* C3: a run that starts with the marker equal to the current candle_id ends
\* without a close, a submit or a state write; hence a run against the candle
\* for which the previous run's order succeeded submits nothing.
C3_Idempotence ==
    /\ ProcessedBarIsSkipped
    /\ (InRun /\ res.fetch = "ok" /\ prev.submit = "ok" /\ prev.bar_key = CandleId)
          => ~HasCall("submit")

(***************************************************************************)
(* C4  Marker-retry.                                                       *)
(***************************************************************************)
\* C4: when the previous run's submission failed for candle c, a run against
\* the same candle with the same action makes the open sequence again: it
\* requests the close of the position it holds and it submits the order.
C4_RetryAfterFailedSubmit ==
    (/\ pc = "done"
     /\ prev.submit = "fail"
     /\ loc.bar_key # None
     /\ loc.bar_key = prev.bar_key
     /\ loc.action = prev.action)
        => /\ HasCall("submit")
           /\ (loc.pos # None) => HasCall("close")

(***************************************************************************)
(* C5  Flip correctness.                                                   *)
(***************************************************************************)
\* the run read a position on the side opposite to its signal
FlipCase ==
    /\ Unprocessed
    /\ loc.pos # None
    /\ \/ (loc.pos[1] > 0 /\ loc.sell_signal)
       \/ (loc.pos[1] < 0 /\ loc.buy_signal)

\* C5: a run with an unprocessed candle, a held position and the opposite
\* signal issues close_position first and the opposite-side order second, and
\* the marker is advanced only after that submission succeeded.
C5_FlipClosesThenOpens ==
    /\ (pc = "done" /\ FlipCase) =>
          calls = <<CloseCall, SubmitCall(IF loc.sell_signal THEN "sell" ELSE "buy")>>
    /\ (InRun /\ FlipCase /\ state_file # start.file) => res.submit = "ok"

(***************************************************************************)
(* C6  Intent NONE has no side effect.                                     *)
(***************************************************************************)
\* the intent of the run is NONE: signal HOLD, or LONG while in_long, or SHORT
\* while in_short (in_long, in_short as run_once reads them off pos_qty)
IntentNone ==
    \/ ~loc.buy_signal /\ ~loc.sell_signal
    \/ loc.buy_signal /\ PosQty(loc.pos) > 0
    \/ loc.sell_signal /\ PosQty(loc.pos) < 0

C7_CloseFailureStillSubmits ==
    (pc = "done" /\ res.close \in {"rejected", "exception"}) => HasCall("submit")

(***************************************************************************)
(* C8  At most one submit_order call per run.                              *)
(***************************************************************************)
\* C8: a run calls submit_order at most once; a failed submission ends the run.
C8_AtMostOneSubmitPerRun ==
    /\ NumCalls("submit") <= 1
    /\ (res.submit = "fail") => pc \in {"done"}

\* a run that ended on a failed submission, having called submit_order once
C8_Witness == pc = "done" /\ res.submit = "fail" /\ NumCalls("submit") = 1

(***************************************************************************)
(* C9  Opening from flat.                                                  *)
(***************************************************************************)
\* C9: from a flat position, on an unprocessed candle, a LONG (SHORT) signal
\* whose submission succeeds gives exactly one order, buy (sell) of p.qty, no
\* close, and afterwards the marker is the id of the last candle.
C9_OpenFromFlat ==
    (/\ pc = "done"
     /\ start.held = 0
     /\ Unprocessed
     /\ loc.buy_signal \/ loc.sell_signal
     /\ res.submit = "ok")
        => /\ calls = <<SubmitCall(IF loc.buy_signal THEN "buy" ELSE "sell")>>
           /\ Marker(state_file) = CandleId

(***************************************************************************)
(* C10  Staleness pass-through.                                            *)
(***************************************************************************)
\* What a run does as a function of everything it read except the lag: the
\* signals, the position, the marker and the answers of the broker and the disk.
CallsWithoutLag(buy_signal, sell_signal, pos, marker, bar_key, answers) ==
    LET action == ActionOf(buy_signal, sell_signal, PosQty(pos) > 0, PosQty(pos) < 0)
    IN IF marker = bar_key \/ action = "HOLD" THEN <<>>
       ELSE (IF pos # None THEN <<CloseCall>> ELSE <<>>)
            \o (IF pos # None /\ answers.close = "exception" THEN <<>>
                ELSE <<SubmitCall(IF action = "LONG" THEN "buy" ELSE "sell")>>)

MarkerWithoutLag(buy_signal, sell_signal, pos, marker, bar_key, answers) ==
    LET sent == CallsWithoutLag(buy_signal, sell_signal, pos, marker, bar_key, answers)
    IN IF sent # <<>> /\ sent[Len(sent)][1] = "submit"
          /\ answers.submit = "ok" /\ answers.write = "ok"
       THEN bar_key
       ELSE marker

C11_NoDataAbortsBeforeAnyMutation ==
    (InRun /\ res.fetch # "none" /\ loc.df_len < MinCandles) =>
        /\ pc = "done"
        /\ res.getpos = "none"
        /\ calls = <<>>
        /\ loc.state = EmptyDict /\ loc.bar_key = None
        /\ state_file = start.file
        /\ brokerQty[p.symbol] = start.held

\* a run that got 49 candles while a marker is on disk and a position is held
C11_Witness ==
    /\ pc = "done"
    /\ res.fetch = "short"
    /\ loc.df_len = MinCandles - 1
    /\ Marker(state_file) # None
    /\ brokerQty[p.symbol] # 0

(***************************************************************************)
(* C12  Notifications do not steer the run.                                *)
(***************************************************************************)
SomeNoteFailed == \E i \in DOMAIN notes : notes[i][2] = "failed"

\* C12: a run in which a tg_send failed makes the close/submit calls and leaves
\* the marker that its signals, position, start marker and broker/disk answers
\* give (none of which is a notification outcome), as a run whose notifications
\* were all delivered does; after a successful order the run still reaches the
\* state write.
C12_NotifyFailureChangesNothing ==
    (pc = "done" /\ SomeNoteFailed) =>
        /\ calls = CallsWithoutLag(loc.buy_signal, loc.sell_signal, loc.pos,
                                   Marker(start.file), CandleId, res)
        /\ Marker(state_file) = MarkerWithoutLag(loc.buy_signal, loc.sell_signal, loc.pos,
                                   Marker(start.file), CandleId, res)
        /\ (res.submit = "ok") => (res.write # "none")

\* the FLIP and the OPEN notification both failed, the order went out after the
\* close and the marker was advanced
C12_Witness ==
    /\ pc = "done"
    /\ notes = <<<<"FLIP", "failed">>, <<"OPEN", "failed">>>>
    /\ Len(calls) = 2
    /\ res.submit = "ok"
    /\ Marker(state_file) = CandleId
    /\ Marker(start.file) # CandleId

(***************************************************************************)
(* C13  The state file and the symbol.                                     *)
(***************************************************************************)
\* C13: the persisted state is keyed by symbol: a run for symbol S on state
\* file L leaves the last-processed marker of another symbol T, which a later
\* run for T on L reads, as it was.
C13_MarkerOfOtherSymbolKept ==
    (InRun /\ Marker(start.file) # None /\ Marker(start.file)[1] # p.symbol) =>
        (Marker(state_file) = Marker(start.file))

(***************************************************************************)
(* C14  Intent determination.                                              *)
(***************************************************************************)
\* the side of the position the run read from the broker
ObservedLong == loc.pos # None /\ loc.pos[1] > 0

ObservedShort == loc.pos # None /\ loc.pos[1] < 0

PositionRead == InRun /\ res.getpos \in {"200", "other"}

\* the intent rule as the code applies it: the position counts as long (short)
\* when its quantity, truncated toward zero to whole shares, is positive (negative)
IntentFromTruncatedQuantity ==
    PositionRead =>
        /\ (loc.action = "LONG") <=> (loc.buy_signal /\ ~(PosQty(loc.pos) > 0))
        /\ (loc.action = "SHORT") <=> (loc.sell_signal /\ ~(PosQty(loc.pos) < 0))
        /\ ObservedLong /\ PosQty(loc.pos) > 0 => SubmitCall("buy") \notin {calls[i] : i \in DOMAIN calls}
        /\ ObservedShort /\ PosQty(loc.pos) < 0 => SubmitCall("sell") \notin {calls[i] : i \in DOMAIN calls}

\* C14: the action is LONG exactly when the signal is LONG and the position read
\* is not long, SHORT exactly when the signal is SHORT and the position read is
\* not short, HOLD otherwise; no buy is submitted in a run that read a long
\* position and no sell in a run that read a short one.
C14_IntentFromSignalAndSide ==
    PositionRead =>
        /\ (loc.action = "LONG") <=> (loc.buy_signal /\ ~ObservedLong)
        /\ (loc.action = "SHORT") <=> (loc.sell_signal /\ ~ObservedShort)
        /\ (loc.action = "HOLD") <=> ~(\/ loc.buy_signal /\ ~ObservedLong
                                       \/ loc.sell_signal /\ ~ObservedShort)
        /\ ObservedLong => SubmitCall("buy") \notin {calls[i] : i \in DOMAIN calls}
        /\ ObservedShort => SubmitCall("sell") \notin {calls[i] : i \in DOMAIN calls}

(***************************************************************************)
(* C15  The signal rule.                                                   *)
(***************************************************************************)
\* the signal of a row: what action is with no position held
SignalOf(v) == ActionOf(v.buy_signal, v.sell_signal, FALSE, FALSE)

\* C15: the signal is LONG iff close > EMA, MACD > signal line, RSI > 45 and
\* ADX > threshold; SHORT iff close < EMA, MACD < signal line, RSI < 55 and
\* ADX > threshold; HOLD otherwise.  Every comparison is strict (equality on
\* any of them gives HOLD for that side) and LONG and SHORT never hold together.
C15_SignalRule ==
    (fn_val # None /\ "r" \in DOMAIN fn_arg) =>
        LET r == fn_arg.r
            th == fn_arg.adx_thresh
            long == r.Close > r.EMA /\ r.MACD > r.SIG /\ r.RSI > 45 /\ r.ADX > th
            short == r.Close < r.EMA /\ r.MACD < r.SIG /\ r.RSI < 55 /\ r.ADX > th
            sig == SignalOf(fn_val[1])
        IN /\ (sig = "LONG") <=> long
           /\ (sig = "SHORT") <=> short
           /\ (sig = "HOLD") <=> (~long /\ ~short)
           /\ ~(fn_val[1].buy_signal /\ fn_val[1].sell_signal)
           /\ (r.Close = r.EMA \/ r.MACD = r.SIG \/ r.ADX = th) => sig = "HOLD"
           /\ (r.RSI = 45) => sig # "LONG"
           /\ (r.RSI = 55) => sig # "SHORT"

\* a row with everything for LONG but RSI exactly 45: HOLD
C15_Witness ==
    /\ fn_val # None
    /\ "r" \in DOMAIN fn_arg
    /\ fn_arg.r.Close > fn_arg.r.EMA /\ fn_arg.r.MACD > fn_arg.r.SIG
    /\ fn_arg.r.ADX > fn_arg.adx_thresh
    /\ fn_arg.r.RSI = 45
    /\ SignalOf(fn_val[1]) = "HOLD"

(***************************************************************************)
(* C16  RSI where the smoothed loss is zero.                               *)
(***************************************************************************)
RsiEvaluated == fn_val # None /\ "close" \in DOMAIN fn_arg

\* the positions where the smoothed loss is zero
ZeroLoss == {i \in 2..Len(fn_arg.close) : EwmDown(fn_arg.close, i) = 0}

IsValue(x, v) == x.kind = "num" /\ x.n = v * x.d

\* C16 (as stated): at every position where the smoothed loss is zero, also
\* when the smoothed gain is positive, rsi returns 50.
C16_ZeroLossGives50 ==
    RsiEvaluated => \A i \in ZeroLoss : IsValue(fn_val[1][i], 50)

\* C16 (amended): at a position where the smoothed loss is zero, rsi returns 50
\* when the smoothed gain is zero too, and 100 when the smoothed gain is
\* positive (as in a strictly rising close series); at the first position,
\* where neither is defined, it returns 50.
C16_ZeroLossGives50Or100 ==
    RsiEvaluated =>
        /\ IsValue(fn_val[1][1], 50)
        /\ \A i \in ZeroLoss :
              IF EwmUp(fn_arg.close, i) = 0
              THEN IsValue(fn_val[1][i], 50)
              ELSE IsValue(fn_val[1][i], 100)

\* a strictly rising series: 100 from the second position on; and a series
\* that stays flat before it rises has 50 while flat
C16_Witness ==
    /\ RsiEvaluated
    /\ fn_arg.close = <<1, 1, 2>>
    /\ IsValue(fn_val[1][2], 50)
    /\ IsValue(fn_val[1][3], 100)

(***************************************************************************)
(* C17  No close without an open attempt.                                  *)
(***************************************************************************)
\* C17: in every run each close_position call is followed, in the same run, by
\* a submit_order call, whatever the close request answered: no run ends
\* having only requested a close.
C17_CloseIsFollowedBySubmit ==
    pc = "done" =>
        \A i \in DOMAIN calls :
            calls[i][1] = "close" =>
                \E j \in DOMAIN calls : j > i /\ calls[j][1] = "submit"

====
